---------------------------- MODULE Spec2Model ----------------------------
(***************************************************************************)
(* A model of tally_votes.py: the title normaliser, the games registry     *)
(* (parse_games_file), the vote extractor (VOTE_PAIR_REGEX and             *)
(* find_vote_pairs), the ballot resolver (parse_ballot_pairs), the ballot  *)
(* validator (validate_ballot) and the tally loop and report of main.      *)
(*                                                                         *)
(* A string is a sequence of characters; a character is a one-element      *)
(* token.  Characters outside ASCII carry a symbolic name: "NL" is the     *)
(* line feed, "NBSP" U+00A0, "RSQUO" U+2019, "LSQUO" U+2018, "PRIME"       *)
(* U+2032, "LDQUO" U+201C, "RDQUO" U+201D, "NDASH" U+2013, "MDASH" U+2014, *)
(* "MINUS" U+2212, "ACUTE" the combining acute accent U+0301, and          *)
(* "EACUTE" U+00E9, "aACUTE" U+00E1, "AACUTE" U+00C1 the precomposed       *)
(* letters.                                                                *)
(*                                                                         *)
(* The run is modelled with debug off (the default of --debug), so the     *)
(* print statements and warnset, which only they read, are left out.       *)
(***************************************************************************)
EXTENDS Integers, Sequences, FiniteSets, TLC

VARIABLES
    phase,            \* position of the run: which loop of the program is executing
    rows,             \* the registry rows read so far by parse_games_file
    allowed,          \* parse_games_file: allowed
    key_to_canonical, \* parse_games_file: key_to_canonical
    rollovers,        \* parse_games_file: rollovers
    min_pairs,        \* args.min_pairs
    per_game,         \* parse_ballot_pairs: per_game; validate_ballot: its argument
    ignored,          \* parse_ballot_pairs: ignored
    verdict,          \* validate_ballot: the (ok, reasons) returned
    game_totals,      \* main: game_totals
    invalid_log,      \* main: invalid_log
    ignored_by_user,  \* main: ignored_by_user
    counters,         \* main: ballots_seen, valid_ballots, invalid_ballots, ignored_votes_total
    done_ballots,     \* the comments consumed so far, with what the loop did with each
    all_rows,         \* main: all_rows after the sort
    text,             \* find_vote_pairs: the text scanned
    pieces,           \* the number of pieces the text was put together from
    pairs             \* find_vote_pairs: the pairs returned; parse_ballot_pairs: its argument

vars == <<phase, rows, allowed, key_to_canonical, rollovers, min_pairs, per_game,
          ignored, verdict, game_totals, invalid_log, ignored_by_user, counters,
          done_ballots, all_rows, text, pieces, pairs>>

registryVars == <<rows, allowed, key_to_canonical, rollovers>>
tallyVars == <<min_pairs, game_totals, invalid_log, ignored_by_user, counters,
               done_ballots, all_rows>>
ballotVars == <<per_game, ignored, verdict>>
extractVars == <<text, pieces, pairs>>

-----------------------------------------------------------------------------
(* Generic helpers on sequences and finite maps.                           *)

RECURSIVE SumSeq(_)
SumSeq(s) == IF s = <<>> THEN 0 ELSE Head(s) + SumSeq(Tail(s))

RECURSIVE SumOver(_, _)
SumOver(f, S) ==
    IF S = {} THEN 0
    ELSE LET x == CHOOSE y \in S : TRUE IN f[x] + SumOver(f, S \ {x})

EmptyMap == [x \in {} |-> 0]

Get(m, k, default) == IF k \in DOMAIN m THEN m[k] ELSE default

-----------------------------------------------------------------------------
(* Normalization                                                           *)

WhiteSpace == {" ", "NL", "NBSP"}

IsSpace(c) == c \in WhiteSpace

RECURSIVE LStrip(_)
LStrip(s) == IF s # <<>> /\ IsSpace(Head(s)) THEN LStrip(Tail(s)) ELSE s

RECURSIVE RStrip(_)
RStrip(s) ==
    IF s # <<>> /\ IsSpace(s[Len(s)]) THEN RStrip(SubSeq(s, 1, Len(s) - 1)) ELSE s

Strip(s) == RStrip(LStrip(s))

\* unicodedata.normalize("NFC", s): a base letter followed by a combining
\* mark is composed; every other character of the alphabet is already NFC.
Composed(c) ==
    CASE c = "e" -> "EACUTE"
      [] c = "a" -> "aACUTE"
      [] c = "A" -> "AACUTE"

RECURSIVE NFC(_)
NFC(s) ==
    IF Len(s) < 2 THEN s
    ELSE IF s[1] \in {"e", "a", "A"} /\ s[2] = "ACUTE"
         THEN <<Composed(s[1])>> \o NFC(SubSeq(s, 3, Len(s)))
         ELSE <<s[1]>> \o NFC(Tail(s))

normalize_unicode(s) == Strip(NFC(s))

ReplChar(c) ==
    CASE c \in {"RSQUO", "LSQUO", "PRIME"} -> "'"
      [] c \in {"LDQUO", "RDQUO"} -> "\""
      [] c \in {"NDASH", "MDASH", "MINUS"} -> "-"
      [] c = "NBSP" -> " "
      [] OTHER -> c

\* re.sub(r"\s+", " ", s)
RECURSIVE CollapseSpace(_)
CollapseSpace(s) ==
    IF s = <<>> THEN <<>>
    ELSE IF IsSpace(Head(s))
         THEN <<" ">> \o CollapseSpace(LStrip(s))
         ELSE <<Head(s)>> \o CollapseSpace(Tail(s))

fold_punct(s) == Strip(CollapseSpace([i \in 1..Len(s) |-> ReplChar(s[i])]))

LowerChar(c) ==
    CASE c = "A" -> "a"
      [] c = "B" -> "b"
      [] c = "T" -> "t"
      [] c = "AACUTE" -> "aACUTE"
      [] OTHER -> c

Lower(s) == [i \in 1..Len(s) |-> LowerChar(s[i])]

norm_key(s) == Lower(fold_punct(normalize_unicode(s)))

-----------------------------------------------------------------------------
(* Games TSV w/ aliases                                                    *)

\* key.rstrip("!?.")
RECURSIVE RStripPunct(_)
RStripPunct(s) ==
    IF s # <<>> /\ s[Len(s)] \in {"!", "?", "."}
    THEN RStripPunct(SubSeq(s, 1, Len(s) - 1))
    ELSE s

\* One turn of the loop of _add_key_with_variants, for the key k.
AddOneKeyKeepLast(mapper, k, canonical) ==
    IF k = <<>> THEN mapper
    ELSE [x \in DOMAIN mapper \cup {k} |-> IF x = k THEN canonical ELSE mapper[x]]

AddOneKey(mapper, k, canonical) ==
    IF k = <<>> THEN mapper
    ELSE IF k \in DOMAIN mapper /\ mapper[k] # <<>> /\ mapper[k] # canonical
         THEN mapper
         ELSE IF k \in DOMAIN mapper THEN mapper
              ELSE [x \in DOMAIN mapper \cup {k} |-> IF x = k THEN canonical ELSE mapper[x]]

\* The loop runs over the set {key, key.rstrip("!?.")}; its two turns touch
\* different keys, so the order the set yields them in does not show.
_add_key_with_variants(mapper, key, canonical) ==
    AddOneKey(AddOneKey(mapper, key, canonical), RStripPunct(key), canonical)

StartsWith(s, p) == Len(s) >= Len(p) /\ SubSeq(s, 1, Len(p)) = p

IsDigit(c) == c \in {"0", "1", "2", "3", "4", "5", "6", "7", "8", "9"}

DigitVal(c) ==
    CASE c = "0" -> 0 [] c = "1" -> 1 [] c = "2" -> 2 [] c = "3" -> 3 [] c = "4" -> 4
      [] c = "5" -> 5 [] c = "6" -> 6 [] c = "7" -> 7 [] c = "8" -> 8 [] c = "9" -> 9

AllDigits(s) == s # <<>> /\ \A i \in 1..Len(s) : IsDigit(s[i])

RECURSIVE DigitsVal(_)
DigitsVal(s) ==
    IF s = <<>> THEN 0 ELSE 10 * DigitsVal(SubSeq(s, 1, Len(s) - 1)) + DigitVal(s[Len(s)])

\* int(raw): an optional sign and decimal digits; anything else raises
\* ValueError, which the caller turns into 0.
IntOrZero(raw) ==
    IF raw # <<>> /\ Head(raw) = "-" /\ AllDigits(Tail(raw)) THEN 0 - DigitsVal(Tail(raw))
    ELSE IF raw # <<>> /\ Head(raw) = "+" /\ AllDigits(Tail(raw)) THEN DigitsVal(Tail(raw))
    ELSE IF AllDigits(raw) THEN DigitsVal(raw)
    ELSE 0

\* A row of the games file: the cell of the game column, the cells of the
\* alias columns the row has, and the cell of the rollover column (has_roll
\* is FALSE when the file has no such column or the row is too short).
RECURSIVE AddAliasesRawKey(_, _, _)
AddAliasesRawKey(mapper, cells, canonical) ==
    IF cells = <<>> THEN mapper
    ELSE LET alias_raw == normalize_unicode(Head(cells))
             m1 == IF alias_raw # <<>> /\ Head(alias_raw) # "#"
                   THEN _add_key_with_variants(mapper, alias_raw, canonical)
                   ELSE mapper
         IN AddAliasesRawKey(m1, Tail(cells), canonical)

RECURSIVE AddAliases(_, _, _)
AddAliases(mapper, cells, canonical) ==
    IF cells = <<>> THEN mapper
    ELSE LET alias_raw == normalize_unicode(Head(cells))
             m1 == IF alias_raw # <<>> /\ Head(alias_raw) # "#"
                   THEN _add_key_with_variants(mapper, norm_key(alias_raw), canonical)
                   ELSE mapper
         IN AddAliases(m1, Tail(cells), canonical)

AddMissingThe(mapper, ck, canonical) ==
    IF StartsWith(ck, <<"t", "h", "e", " ">>)
    THEN LET ak == Strip(SubSeq(ck, 5, Len(ck)))
         IN IF ak # <<>> THEN _add_key_with_variants(mapper, ak, canonical) ELSE mapper
    ELSE mapper

RowPoints(row) ==
    IF row.has_roll
    THEN LET raw == Strip(row.roll) IN IF raw # <<>> THEN IntOrZero(raw) ELSE 0
    ELSE 0

AddRollover(roll, canonical, pts) ==
    IF pts # 0
    THEN [x \in DOMAIN roll \cup {canonical} |->
             IF x = canonical THEN Get(roll, canonical, 0) + pts ELSE roll[x]]
    ELSE roll

RowSkipped(row) ==
    LET canonical == normalize_unicode(row.game)
    IN canonical = <<>> \/ Head(canonical) = "#"

\* The body of the loop "for row in reader" of parse_games_file.
ParseRowFn(reg, row) ==
    IF RowSkipped(row) THEN reg
    ELSE LET canonical == normalize_unicode(row.game)
             ck == norm_key(canonical)
             m1 == _add_key_with_variants(reg.key_to_canonical, ck, canonical)
             m2 == AddAliases(m1, row.aliases, canonical)
             m3 == AddMissingThe(m2, ck, canonical)
         IN [allowed |-> reg.allowed \cup {canonical},
             key_to_canonical |-> m3,
             rollovers |-> AddRollover(reg.rollovers, canonical, RowPoints(row))]

EmptyRegistry == [allowed |-> {}, key_to_canonical |-> EmptyMap, rollovers |-> EmptyMap]

RECURSIVE parse_games_file(_)
parse_games_file(rs) ==
    IF rs = <<>> THEN EmptyRegistry
    ELSE ParseRowFn(parse_games_file(SubSeq(rs, 1, Len(rs) - 1)), rs[Len(rs)])

-----------------------------------------------------------------------------
(* The registry build, one row of the games file at a time.                *)

MaxRows == 2

TitleCells ==
    { <<"A">>,
      <<"a", "!">>,
      <<"T", "h", "e", " ", " ", "A">>,
      <<"B">>,
      <<" ", "#", "a">> }

AliasCells ==
    { <<>>,
      << <<"a">> >>,
      << <<>>, <<"A", "?", "!">> >>,
      << <<"NBSP", "b", "RSQUO">>, <<"#", "b">> >>,
      << <<"e", "ACUTE">>, <<"T", "h", "e", " ", "a", ".">> >> }

RollCells == { <<>>, <<" ", "3">> }

Rows(titles, aliases, rolls) ==
    { [game |-> g, aliases |-> a, has_roll |-> TRUE, roll |-> r] :
        g \in titles, a \in aliases, r \in rolls }

Idle ==
    /\ min_pairs = 0
    /\ per_game = EmptyMap
    /\ ignored = <<>>
    /\ verdict = [ok |-> TRUE, reasons |-> <<>>]
    /\ game_totals = EmptyMap
    /\ invalid_log = <<>>
    /\ ignored_by_user = EmptyMap
    /\ counters = [ballots_seen |-> 0, valid_ballots |-> 0, invalid_ballots |-> 0,
                   ignored_votes_total |-> 0, authors_seen |-> {}]
    /\ done_ballots = <<>>
    /\ all_rows = <<>>
    /\ text = <<>>
    /\ pieces = 0
    /\ pairs = <<>>

InitRegistry ==
    /\ phase = "games"
    /\ rows = <<>>
    /\ allowed = {}
    /\ key_to_canonical = EmptyMap
    /\ rollovers = EmptyMap
    /\ Idle

ParseRow ==
    /\ phase = "games"
    /\ Len(rows) < MaxRows
    /\ \E row \in Rows(TitleCells, AliasCells, RollCells) :
          LET reg == ParseRowFn([allowed |-> allowed, key_to_canonical |-> key_to_canonical,
                                 rollovers |-> rollovers], row)
          IN /\ rows' = Append(rows, row)
             /\ allowed' = reg.allowed
             /\ key_to_canonical' = reg.key_to_canonical
             /\ rollovers' = reg.rollovers
    /\ UNCHANGED <<phase, tallyVars, ballotVars, extractVars>>

NextRegistry == ParseRow

SpecRegistry == InitRegistry /\ [][NextRegistry]_vars

-----------------------------------------------------------------------------
(* Ballot resolution and validation                                        *)

\* "per_game[canonical] = pts" in place of "+=".
AddPointsOverwrite(counter, title, pts) ==
    [x \in DOMAIN counter \cup {title} |-> IF x = title THEN pts ELSE counter[x]]

AddPoints(counter, title, pts) ==
    [x \in DOMAIN counter \cup {title} |->
        IF x = title THEN Get(counter, title, 0) + pts ELSE counter[x]]

RECURSIVE parse_ballot_pairs(_, _)
parse_ballot_pairs(ps, lookup) ==
    IF ps = <<>> THEN [per_game |-> EmptyMap, ignored |-> <<>>]
    ELSE LET prev == parse_ballot_pairs(SubSeq(ps, 1, Len(ps) - 1), lookup)
             title_raw == ps[Len(ps)][1]
             pts == ps[Len(ps)][2]
             key == norm_key(title_raw)
         IN IF key \in DOMAIN lookup /\ lookup[key] # <<>>
            THEN [per_game |-> AddPoints(prev.per_game, lookup[key], pts),
                  ignored |-> prev.ignored]
            ELSE [per_game |-> prev.per_game,
                  ignored |-> Append(prev.ignored, <<title_raw, pts>>)]

\* validate_ballot with the per-game rule checked only when the total rule
\* passed.
validate_ballot_elif(pg) ==
    LET total == SumOver(pg, DOMAIN pg)
        over5 == { <<t, pg[t]>> : t \in { x \in DOMAIN pg : pg[x] > 5 } }
        r1 == IF total > 20 THEN << [kind |-> "total", total |-> total] >> ELSE <<>>
        r2 == IF total <= 20 /\ over5 # {}
              THEN << [kind |-> "per_game", over5 |-> over5] >> ELSE <<>>
    IN [ok |-> Len(r1 \o r2) = 0, reasons |-> r1 \o r2]

\* A reason is kept as a record in place of the formatted string: the total
\* reason with the total it prints, the per-game reason with the (title,
\* points) it lists.
validate_ballot(pg) ==
    LET total == SumOver(pg, DOMAIN pg)
        over5 == { <<t, pg[t]>> : t \in { x \in DOMAIN pg : pg[x] > 5 } }
        r1 == IF total > 20 THEN << [kind |-> "total", total |-> total] >> ELSE <<>>
        r2 == IF over5 # {} THEN << [kind |-> "per_game", over5 |-> over5] >> ELSE <<>>
    IN [ok |-> Len(r1 \o r2) = 0, reasons |-> r1 \o r2]

-----------------------------------------------------------------------------
(* Vote extraction                                                         *)

\* \s* : the first position from j on that holds no whitespace.
RECURSIVE SkipSpace(_, _)
SkipSpace(t, j) == IF j <= Len(t) /\ IsSpace(t[j]) THEN SkipSpace(t, j + 1) ELSE j

\* \d+ : the first position from j on that holds no digit.
RECURSIVE SkipDigits(_, _)
SkipDigits(t, j) == IF j <= Len(t) /\ IsDigit(t[j]) THEN SkipDigits(t, j + 1) ELSE j

\* \s*\((?P<points>\d+)\)(?=(?:\s+|$)) tried at position e: the positions of
\* the two parentheses, or 0 when it does not match there.  \s* and \d+ are
\* greedy and what follows each cannot be matched by a character they
\* gave back, so backtracking into them changes nothing.
PointsAt(t, e) ==
    LET j == SkipSpace(t, e)
        k == SkipDigits(t, j + 1)
    IN IF /\ j <= Len(t) /\ t[j] = "("
          /\ k > j + 1
          /\ k <= Len(t) /\ t[k] = ")"
          /\ (k = Len(t) \/ IsSpace(t[k + 1]))
       THEN [open |-> j, close |-> k]
       ELSE [open |-> 0, close |-> 0]

\* A title that may hold no opening parenthesis, as [^(\n]+? would match.
RECURSIVE MatchTitleNoParen(_, _, _)
MatchTitleNoParen(t, s, e) ==
    IF e > Len(t) \/ t[e - 1] \in {"NL", "("} THEN [found |-> FALSE]
    ELSE LET m == PointsAt(t, e)
         IN IF m.open # 0
            THEN [found |-> TRUE, title |-> SubSeq(t, s, e - 1),
                  points |-> SubSeq(t, m.open + 1, m.close - 1), end |-> m.close]
            ELSE MatchTitleNoParen(t, s, e + 1)

\* (?P<title>.+?) from position s, the title ending before position e: the
\* shortest title wins, and "." matches no line feed.
RECURSIVE MatchTitle(_, _, _)
MatchTitle(t, s, e) ==
    IF e > Len(t) \/ t[e - 1] = "NL" THEN [found |-> FALSE]
    ELSE LET m == PointsAt(t, e)
         IN IF m.open # 0
            THEN [found |-> TRUE, title |-> SubSeq(t, s, e - 1),
                  points |-> SubSeq(t, m.open + 1, m.close - 1), end |-> m.close]
            ELSE MatchTitle(t, s, e + 1)

\* VOTE_PAIR_REGEX.finditer(text) from position pos on: the leftmost match,
\* then the scan goes on after it.
RECURSIVE FindIter(_, _)
FindIter(t, pos) ==
    IF pos > Len(t) THEN <<>>
    ELSE LET m == MatchTitle(t, pos, pos + 1)
         IN IF m.found
            THEN << <<normalize_unicode(m.title), DigitsVal(m.points)>> >>
                     \o FindIter(t, m.end + 1)
            ELSE FindIter(t, pos + 1)

find_vote_pairs(t) == FindIter(t, 1)

-----------------------------------------------------------------------------
(* Main: the tally loop over the top-level comments, and the report.       *)

MaxBallots == 2

RegistryInputs ==
    { << [game |-> <<"A">>, aliases |-> <<>>, has_roll |-> FALSE, roll |-> <<>>],
         [game |-> <<"a">>, aliases |-> <<>>, has_roll |-> TRUE, roll |-> <<"x">>],
         [game |-> <<"B", "!">>, aliases |-> <<<<"b", "e", "e">>>>, has_roll |-> TRUE, roll |-> <<"-", "2">>] >>,
      << [game |-> <<"A">>, aliases |-> <<>>, has_roll |-> TRUE, roll |-> <<"3">>],
         [game |-> <<"B">>, aliases |-> <<>>, has_roll |-> FALSE, roll |-> <<>>],
         [game |-> <<"c">>, aliases |-> <<>>, has_roll |-> FALSE, roll |-> <<>>],
         [game |-> <<"d">>, aliases |-> <<>>, has_roll |-> FALSE, roll |-> <<>>],
         [game |-> <<"T", "h", "e", " ", "e">>, aliases |-> <<<<"NBSP", "E", "RSQUO">>>>, has_roll |-> TRUE, roll |-> <<" ", "1">>] >>,
      << [game |-> <<"A">>, aliases |-> <<>>, has_roll |-> TRUE, roll |-> <<"3">>],
         [game |-> <<"#", "B">>, aliases |-> <<>>, has_roll |-> TRUE, roll |-> <<"5">>],
         [game |-> <<"A">>, aliases |-> <<<<>>, <<"b", ".">>>>, has_roll |-> TRUE, roll |-> <<"4">>] >> }

MinPairsInputs == {0, 1, 2}

Authors == {"u1", "u2"}

CommentTexts ==
    { <<"A", " ", "(", "5", ")">>,
      <<"a", " ", "(", "3", ")", "NL", "A", " ", "(", "3", ")">>,
      <<"x", " ", "(", "3", ")">>,
      <<"h", "e", "l", "l", "o">>,
      <<"A", " ", "(", "2", "1", ")">>,
      <<"A", " ", "(", "5", ")", " ", "B", " ", "(", "5", ")", " ", "c", " ", "(", "5", ")", " ", "d", " ", "(", "5", ")", " ", "e", " ", "(", "5", ")">>,
      <<"b", " ", "(", "2", ")", " ", "x", " ", "(", "9", ")">>,
      <<"B", " ", "(", "0", ")">> }

AddAll(totals, pg) ==
    [x \in DOMAIN totals \cup DOMAIN pg |-> Get(totals, x, 0) + Get(pg, x, 0)]

\* "if not per_game and not ignored: continue"
SkipsBallotUnmatched(pg, ig) == pg = EmptyMap

SkipsBallot(pg, ig) == pg = EmptyMap /\ ig = <<>>

\* game_totals after the validation of one ballot.
TallyAfterCapped(totals, pg, v) ==
    IF v.ok THEN AddAll(totals, pg)
    ELSE AddAll(totals, [t \in { x \in DOMAIN pg : pg[x] <= 5 } |-> pg[t]])

TallyAfter(totals, pg, v) == IF v.ok THEN AddAll(totals, pg) ELSE totals

ExtendIgnored(by_user, user, ig) ==
    IF ig # <<>>
    THEN [u \in DOMAIN by_user \cup {user} |->
             IF u = user THEN Get(by_user, user, <<>>) \o ig ELSE by_user[u]]
    ELSE by_user

NoVerdict == [ok |-> TRUE, reasons |-> <<>>]

Init ==
    /\ phase = "start"
    /\ rows = <<>>
    /\ allowed = {}
    /\ key_to_canonical = EmptyMap
    /\ rollovers = EmptyMap
    /\ Idle

\* parse_games_file(args.games_file), then game_totals = Counter(rollovers)
\* and the other accumulators of the loop.
LoadGames ==
    /\ phase = "start"
    /\ \E rs \in RegistryInputs, mp \in MinPairsInputs :
          LET reg == parse_games_file(rs)
          IN /\ rows' = rs
             /\ allowed' = reg.allowed
             /\ key_to_canonical' = reg.key_to_canonical
             /\ rollovers' = reg.rollovers
             /\ game_totals' = reg.rollovers
             /\ min_pairs' = mp
    /\ phase' = "tally"
    /\ UNCHANGED <<invalid_log, ignored_by_user, counters, done_ballots, all_rows,
                   ballotVars, extractVars>>

\* One top-level comment: iter_top_level_ballots extracts its pairs and
\* yields it when it has min_pairs of them, and the body of the loop of main
\* runs on what is yielded.
ProcessComment ==
    /\ phase = "tally"
    /\ Len(done_ballots) < MaxBallots
    /\ \E user \in Authors, txt \in CommentTexts :
          LET ps == find_vote_pairs(txt)
              yielded == Len(ps) >= min_pairs
              r == parse_ballot_pairs(ps, key_to_canonical)
              skipped == SkipsBallot(r.per_game, r.ignored)
              v == validate_ballot(r.per_game)
              validated == yielded /\ ~skipped
              seen == [counters EXCEPT
                          !.ballots_seen = @ + 1,
                          !.authors_seen = @ \cup {user},
                          !.ignored_votes_total = @ + Len(r.ignored)]
          IN /\ done_ballots' = Append(done_ballots,
                    [author |-> user, text |-> txt, pairs |-> ps, yielded |-> yielded,
                     per_game |-> IF yielded THEN r.per_game ELSE EmptyMap,
                     ignored |-> IF yielded THEN r.ignored ELSE <<>>,
                     validated |-> validated,
                     verdict |-> IF validated THEN v ELSE NoVerdict])
             /\ ignored_by_user' =
                    IF yielded THEN ExtendIgnored(ignored_by_user, user, r.ignored)
                    ELSE ignored_by_user
             /\ counters' =
                    IF ~yielded THEN counters
                    ELSE IF skipped THEN seen
                    ELSE IF ~v.ok THEN [seen EXCEPT !.invalid_ballots = @ + 1]
                    ELSE [seen EXCEPT !.valid_ballots = @ + 1]
             /\ invalid_log' =
                    IF validated /\ ~v.ok
                    THEN Append(invalid_log, [user |-> user, reasons |-> v.reasons])
                    ELSE invalid_log
             /\ game_totals' =
                    IF validated THEN TallyAfter(game_totals, r.per_game, v) ELSE game_totals
    /\ UNCHANGED <<phase, registryVars, min_pairs, all_rows, ballotVars, extractVars>>

CodePoint(c) ==
    CASE c = "NL" -> 10 [] c = " " -> 32 [] c = "!" -> 33 [] c = "#" -> 35
      [] c = "'" -> 39 [] c = "(" -> 40 [] c = ")" -> 41 [] c = "-" -> 45
      [] c = "." -> 46 [] c = "?" -> 63 [] c = "A" -> 65 [] c = "B" -> 66
      [] c = "E" -> 69 [] c = "T" -> 84 [] c = "a" -> 97 [] c = "b" -> 98
      [] c = "c" -> 99 [] c = "d" -> 100 [] c = "e" -> 101 [] c = "h" -> 104
      [] c = "t" -> 116 [] c = "x" -> 120 [] c = "NBSP" -> 160
      [] c = "AACUTE" -> 193 [] c = "aACUTE" -> 225 [] c = "EACUTE" -> 233
      [] c = "ACUTE" -> 769 [] c = "RSQUO" -> 8217
      [] IsDigit(c) -> 48 + DigitVal(c)

\* a < b for two strings, as Python compares them.
RECURSIVE StrLess(_, _)
StrLess(a, b) ==
    IF b = <<>> THEN FALSE
    ELSE IF a = <<>> THEN TRUE
    ELSE IF Head(a) # Head(b) THEN CodePoint(Head(a)) < CodePoint(Head(b))
    ELSE StrLess(Tail(a), Tail(b))

\* key=lambda x: (-x[1], x[0].lower()) : r sorts strictly before q.
KeyLess(r, q) == r[2] > q[2] \/ (r[2] = q[2] /\ StrLess(Lower(r[1]), Lower(q[1])))

\* The titles the report has a row for.
ReportTitlesTallied(titles, totals) == DOMAIN totals

ReportTitles(titles, totals) == titles

\* list.sort is stable and the list is built in the iteration order of the
\* set allowed, which the hash seed of the run picks: rows with equal keys
\* may come out in any order.
RECURSIVE SortedOrders(_)
SortedOrders(S) ==
    IF S = {} THEN { <<>> }
    ELSE UNION { { <<r>> \o rest : rest \in SortedOrders(S \ {r}) } :
                   r \in { x \in S : \A y \in S : ~KeyLess(y, x) } }

WriteReport ==
    /\ phase = "tally"
    /\ all_rows' \in SortedOrders({ <<title, Get(game_totals, title, 0)>> :
                                      title \in ReportTitles(allowed, game_totals) })
    /\ phase' = "done"
    /\ UNCHANGED <<registryVars, min_pairs, game_totals, invalid_log, ignored_by_user,
                   counters, done_ballots, ballotVars, extractVars>>

Next == LoadGames \/ ProcessComment \/ WriteReport

Spec == Init /\ [][Next]_vars

-----------------------------------------------------------------------------
(* Properties of the registry, checked under SpecRegistry.                 *)

Canonical(row) == normalize_unicode(row.game)

ValidAliases(row) ==
    { row.aliases[j] : j \in { n \in 1..Len(row.aliases) :
        LET alias_raw == normalize_unicode(row.aliases[n])
        IN alias_raw # <<>> /\ Head(alias_raw) # "#" } }

ProbePoints == {0, 3}

\* The canonical titles a registration may name.
ProbeTitles == { normalize_unicode(g) : g \in TitleCells }

KeysKept ==
    \A k \in DOMAIN key_to_canonical :
        k \in DOMAIN key_to_canonical' /\ key_to_canonical'[k] = key_to_canonical[k]

RegisteredKeyIsFinal ==
    \A k \in DOMAIN key_to_canonical : \A c \in ProbeTitles :
        AddOneKey(key_to_canonical, k, c) = key_to_canonical

\* C4: once a key of the lookup maps to a canonical title, no later row
\* changes or removes that mapping, and registering a key the lookup already
\* holds, for the same or for another canonical title, leaves the whole
\* lookup as it was.
C4_FirstWriterWins == [][KeysKept]_vars /\ []RegisteredKeyIsFinal

\* A row was read whose own title key, or its variant without trailing
\* punctuation, stayed with the title registered before it.
C4_Witness ==
    \E i \in 1..Len(rows) :
        /\ ~RowSkipped(rows[i])
        /\ \E k \in {norm_key(Canonical(rows[i])), RStripPunct(norm_key(Canonical(rows[i])))} :
              /\ k \in DOMAIN key_to_canonical
              /\ key_to_canonical[k] # Canonical(rows[i])

ResolvesTo(alias, pts, title) ==
    parse_ballot_pairs(<< <<alias, pts>> >>, key_to_canonical)
        = [per_game |-> [t \in {title} |-> pts], ignored |-> <<>>]

\* C5 as stated: every listed alias of every row read resolves to the
\* canonical title of its row.
C5_AliasRoundTrip ==
    \A i \in 1..Len(rows) :
        ~RowSkipped(rows[i]) =>
            \A a \in ValidAliases(rows[i]) : \A pts \in ProbePoints :
                ResolvesTo(a, pts, Canonical(rows[i]))

FirstOwner(i, a) ==
    LET before == parse_games_file(SubSeq(rows, 1, i - 1)).key_to_canonical
    IN IF norm_key(a) \in DOMAIN before THEN before[norm_key(a)] ELSE Canonical(rows[i])

\* C5 amended: a vote for a listed alias of a row is always matched, and it
\* resolves to the canonical title of that row unless an earlier row had
\* registered the alias's normalised key for another title, in which case
\* it resolves to that earlier title.
C5_AliasRoundTripFirstWriter ==
    \A i \in 1..Len(rows) :
        ~RowSkipped(rows[i]) =>
            \A a \in ValidAliases(rows[i]) : \A pts \in ProbePoints :
                ResolvesTo(a, pts, FirstOwner(i, a))

\* Two rows were read: one has an alias whose key differs from its raw text
\* and resolves to the row's title, the other an alias that an earlier row
\* owns.
C5_Witness ==
    /\ \E i \in 1..Len(rows) : ~RowSkipped(rows[i]) /\
          \E a \in ValidAliases(rows[i]) :
              norm_key(a) # a /\ ResolvesTo(a, 3, Canonical(rows[i]))
    /\ \E i \in 1..Len(rows) : ~RowSkipped(rows[i]) /\
          \E a \in ValidAliases(rows[i]) :
              FirstOwner(i, a) # Canonical(rows[i]) /\ ResolvesTo(a, 3, FirstOwner(i, a))

-----------------------------------------------------------------------------
(* Properties of the tally and of the report, checked under Spec.          *)

\* The two rules of the validator, as the specification words them.
BreaksRule(pg) == SumOver(pg, DOMAIN pg) > 20 \/ \E t \in DOMAIN pg : pg[t] > 5

LastBallot == done_ballots'[Len(done_ballots')]

BallotStep == Len(done_ballots') = Len(done_ballots) + 1

RECURSIVE CountedPoints(_, _)
CountedPoints(bs, title) ==
    IF bs = <<>> THEN 0
    ELSE LET b == bs[Len(bs)]
         IN CountedPoints(SubSeq(bs, 1, Len(bs) - 1), title)
            + (IF b.validated /\ ~BreaksRule(b.per_game) THEN Get(b.per_game, title, 0) ELSE 0)

TallyIsSeedsPlusValid ==
    phase \in {"tally", "done"} =>
        \A title \in allowed \cup DOMAIN game_totals \cup DOMAIN rollovers :
            Get(game_totals, title, 0)
                = Get(rollovers, title, 0) + CountedPoints(done_ballots, title)

InvalidLeavesTally ==
    (BallotStep /\ BreaksRule(LastBallot.per_game)) => game_totals' = game_totals

\* C1: a ballot that breaks a rule (total > 20 or a title > 5) leaves every
\* entry of the tally as it was, and after each ballot the tally of a title
\* is its seed plus the points the validated ballots so far gave it.
C1_AllOrNothing == []TallyIsSeedsPlusValid /\ [][InvalidLeavesTally]_vars

\* A valid ballot was counted and then a ballot that breaks a rule while
\* holding a title within its limit was processed.
C1_Witness ==
    /\ Len(done_ballots) = 2
    /\ done_ballots[1].validated /\ ~BreaksRule(done_ballots[1].per_game)
    /\ \E t \in DOMAIN done_ballots[1].per_game : done_ballots[1].per_game[t] > 0
    /\ done_ballots[2].validated /\ BreaksRule(done_ballots[2].per_game)
    /\ \E t \in DOMAIN done_ballots[2].per_game :
          done_ballots[2].per_game[t] > 0 /\ done_ballots[2].per_game[t] <= 5

ReportTitleAt(i) == all_rows[i][1]

ReportPointsAt(i) == all_rows[i][2]

Referenced(title) == \E i \in 1..Len(done_ballots) : title \in DOMAIN done_ballots[i].per_game

\* C7: the report has one row for each allowed title and no other row; a
\* title no ballot references shows its seed, which is 0 when it has none.
C7_ZeroVoteVisibility ==
    phase = "done" =>
        /\ Len(all_rows) = Cardinality(allowed)
        /\ { ReportTitleAt(i) : i \in 1..Len(all_rows) } = allowed
        /\ \A i \in 1..Len(all_rows) :
              ~Referenced(ReportTitleAt(i)) =>
                  ReportPointsAt(i) = Get(rollovers, ReportTitleAt(i), 0)

\* The report was written with a row of 0 points for a title without seed
\* and without votes, and a row showing the seed of a title no ballot named,
\* after a ballot was counted.
C7_Witness ==
    /\ phase = "done"
    /\ \E i \in 1..Len(all_rows) :
          /\ ReportTitleAt(i) \notin DOMAIN game_totals
          /\ ReportPointsAt(i) = 0
    /\ \E i \in 1..Len(all_rows) :
          /\ ~Referenced(ReportTitleAt(i))
          /\ ReportPointsAt(i) = 3
    /\ \E i \in 1..Len(done_ballots) :
          done_ballots[i].validated /\ done_ballots[i].verdict.ok

\* C8: the rows of the report are in an order the sort key decides alone:
\* no two rows of a report carry the same key (points, lower-cased title).
C8_TotalOrder ==
    phase = "done" =>
        \A i, j \in 1..Len(all_rows) :
            i < j => KeyLess(all_rows[i], all_rows[j])

\* C9: every seed of the registry is a non-negative integer, and so is every
\* total of the tally.
C9_NonNegative ==
    /\ \A title \in DOMAIN rollovers : rollovers[title] >= 0
    /\ \A title \in DOMAIN game_totals : game_totals[title] >= 0

Unmatched(b) == b.yielded /\ b.per_game = EmptyMap /\ b.ignored # <<>>

IgnoredRecorded(b) ==
    /\ b.author \in DOMAIN ignored_by_user'
    /\ ignored_by_user'[b.author] = Get(ignored_by_user, b.author, <<>>) \o b.ignored

NoPairsNotValidated == (BallotStep /\ LastBallot.pairs = <<>>) => ~LastBallot.validated

UnmatchedSkipped ==
    (BallotStep /\ Unmatched(LastBallot)) =>
        /\ invalid_log' = invalid_log
        /\ counters'.valid_ballots = counters.valid_ballots
        /\ counters'.invalid_ballots = counters.invalid_ballots
        /\ game_totals' = game_totals
        /\ IgnoredRecorded(LastBallot)

UnmatchedCountedValid ==
    (BallotStep /\ Unmatched(LastBallot)) =>
        /\ invalid_log' = invalid_log
        /\ LastBallot.validated /\ LastBallot.verdict.ok
        /\ counters'.valid_ballots = counters.valid_ballots + 1
        /\ counters'.invalid_ballots = counters.invalid_ballots
        /\ game_totals' = game_totals
        /\ IgnoredRecorded(LastBallot)

\* C10 as stated: a comment without pairs is never validated, and a ballot
\* whose pairs are all ignored is counted neither valid nor invalid, is not
\* logged invalid, leaves the tally alone and has its pairs recorded.
C10_UnmatchedBallotSkipped == [][NoPairsNotValidated /\ UnmatchedSkipped]_vars

\* C10 amended: a comment without pairs is never validated; a ballot whose
\* pairs are all ignored is validated with an empty per_game, passes, and is
\* counted as a valid ballot, is not logged invalid, leaves the tally alone
\* and has its pairs recorded under its author.
C10_UnmatchedBallotCountedValid == [][NoPairsNotValidated /\ UnmatchedCountedValid]_vars

\* A comment without pairs was yielded (min_pairs = 0) and skipped, and a
\* ballot whose pairs are all ignored was processed.
C10_Witness ==
    /\ Len(done_ballots) = 2
    /\ done_ballots[1].yielded /\ done_ballots[1].pairs = <<>>
    /\ Unmatched(done_ballots[2])
    /\ counters.valid_ballots = 1
    /\ done_ballots[2].author \in DOMAIN ignored_by_user

-----------------------------------------------------------------------------
(* The validator alone: validate_ballot on the per_game of any ballot.     *)

BallotTitles == { <<"A">>, <<"B">>, <<"c">>, <<"d">>, <<"T", "h", "e", " ", "e">> }

BallotPoints == {0, 1, 5, 6, 21}

IdleRegistry ==
    /\ rows = <<>>
    /\ allowed = {}
    /\ key_to_canonical = EmptyMap
    /\ rollovers = EmptyMap

InitValidate ==
    /\ phase = "resolved"
    /\ IdleRegistry
    /\ Idle

\* per_game as parse_ballot_pairs builds it: one more matched pair.
MatchPair ==
    /\ phase = "resolved"
    /\ \E title \in BallotTitles, pts \in BallotPoints :
          /\ title \notin DOMAIN per_game
          /\ per_game' = AddPoints(per_game, title, pts)
    /\ UNCHANGED <<phase, registryVars, tallyVars, ignored, verdict, extractVars>>

Validate ==
    /\ phase = "resolved"
    /\ verdict' = validate_ballot(per_game)
    /\ phase' = "validated"
    /\ UNCHANGED <<registryVars, tallyVars, per_game, ignored, extractVars>>

NextValidate == MatchPair \/ Validate

SpecValidate == InitValidate /\ [][NextValidate]_vars

Total == SumOver(per_game, DOMAIN per_game)

Over5 == { <<t, per_game[t]>> : t \in { x \in DOMAIN per_game : per_game[x] > 5 } }

HasReason(r) == \E i \in 1..Len(verdict.reasons) : verdict.reasons[i] = r

\* C2: ok holds exactly when the total is at most 20 and every title has
\* at most 5 points; the total reason (with the total) is given exactly when
\* the total exceeds 20 and the per-game reason (with every title over 5)
\* exactly when some title exceeds 5, each whatever the other rule says.
C2_ValidateBallot ==
    phase = "validated" =>
        /\ verdict.ok = (Total <= 20 /\ \A t \in DOMAIN per_game : per_game[t] <= 5)
        /\ (Total > 20) = HasReason([kind |-> "total", total |-> Total])
        /\ (Over5 # {}) = HasReason([kind |-> "per_game", over5 |-> Over5])
        /\ Len(verdict.reasons) = (IF Total > 20 THEN 1 ELSE 0) + (IF Over5 # {} THEN 1 ELSE 0)

\* A ballot that breaks both rules was validated and got both reasons.
C2_Witness ==
    /\ phase = "validated"
    /\ Total > 20
    /\ Over5 # {}
    /\ Len(verdict.reasons) = 2
    /\ ~verdict.ok

-----------------------------------------------------------------------------
(* The resolver alone: parse_ballot_pairs on any list of pairs.            *)

MaxPairs == 3

PairTitles == { <<"A">>, <<" ", "b", "!">>, <<"x">>, <<"E", "RSQUO">> }

PairPoints == {0, 3, 6}

InitResolve ==
    /\ phase = "extracted"
    /\ \E rs \in RegistryInputs :
          /\ rows = rs
          /\ allowed = parse_games_file(rs).allowed
          /\ key_to_canonical = parse_games_file(rs).key_to_canonical
          /\ rollovers = parse_games_file(rs).rollovers
    /\ Idle

\* One more pair in the list the extractor hands over.
ExtractPair ==
    /\ phase = "extracted"
    /\ Len(pairs) < MaxPairs
    /\ \E title \in PairTitles, pts \in PairPoints : pairs' = Append(pairs, <<title, pts>>)
    /\ UNCHANGED <<phase, registryVars, tallyVars, ballotVars, text, pieces>>

Resolve ==
    /\ phase = "extracted"
    /\ per_game' = parse_ballot_pairs(pairs, key_to_canonical).per_game
    /\ ignored' = parse_ballot_pairs(pairs, key_to_canonical).ignored
    /\ phase' = "resolved"
    /\ UNCHANGED <<registryVars, tallyVars, verdict, extractVars>>

NextResolve == ExtractPair \/ Resolve

SpecResolve == InitResolve /\ [][NextResolve]_vars

IsHit(p) == norm_key(p[1]) \in DOMAIN key_to_canonical

IsMiss(p) == ~IsHit(p)

PointsOf(ps) == SumSeq([i \in 1..Len(ps) |-> ps[i][2]])

HitsOf(title) ==
    LET Mine(p) == IsHit(p) /\ key_to_canonical[norm_key(p[1])] = title
    IN SelectSeq(pairs, Mine)

\* C3: every pair lands in exactly one output.  ignored is the list of the
\* pairs whose key the lookup lacks, as written and in their order; per_game
\* holds the canonical titles of the other pairs, each with the sum of the
\* points of its pairs; so the two outputs together carry the points of all
\* pairs and the total the validator sees leaves the ignored points out.
C3_ResolverPartition ==
    phase = "resolved" =>
        /\ ignored = SelectSeq(pairs, IsMiss)
        /\ DOMAIN per_game = { key_to_canonical[norm_key(pairs[i][1])] :
                                 i \in { n \in 1..Len(pairs) : IsHit(pairs[n]) } }
        /\ \A title \in DOMAIN per_game : per_game[title] = PointsOf(HitsOf(title))
        /\ SumOver(per_game, DOMAIN per_game) + PointsOf(ignored) = PointsOf(pairs)
        /\ SumOver(per_game, DOMAIN per_game) = PointsOf(SelectSeq(pairs, IsHit))

\* A ballot was resolved that names one canonical title twice, with points,
\* and holds an ignored pair with points.
C3_Witness ==
    /\ phase = "resolved"
    /\ \E title \in DOMAIN per_game :
          Len(HitsOf(title)) = 2 /\ per_game[title] = 9
    /\ Len(ignored) = 1
    /\ PointsOf(ignored) > 0

-----------------------------------------------------------------------------
(* The extractor alone: find_vote_pairs on any text.                       *)

MaxTokens == 5

Tokens == { <<"F">>, <<" ">>, <<"NL">>, <<"(", "F", ")">>, <<"(", "2", ")">>, <<"(">>, <<"1">> }

InitExtract ==
    /\ phase = "fetched"
    /\ IdleRegistry
    /\ Idle

\* The body of a comment, a piece at a time.
TypeToken ==
    /\ phase = "fetched"
    /\ pieces < MaxTokens
    /\ \E tok \in Tokens : text' = text \o tok
    /\ pieces' = pieces + 1
    /\ UNCHANGED <<phase, registryVars, tallyVars, ballotVars, pairs>>

Scan ==
    /\ phase = "fetched"
    /\ pairs' = find_vote_pairs(text)
    /\ phase' = "extracted"
    /\ UNCHANGED <<registryVars, tallyVars, ballotVars, text, pieces>>

NextExtract == TypeToken \/ Scan

SpecExtract == InitExtract /\ [][NextExtract]_vars

\* The text is a title, optional whitespace, a parenthesised integer and
\* optional whitespace up to its end: the position of the parenthesis that
\* opens that last integer, or 0 when the text is not of this form.
FinalOpen(t) ==
    LET body == RStrip(t)
        opens == { j \in 1..Len(body) :
                     /\ body[j] = "("
                     /\ body[Len(body)] = ")"
                     /\ AllDigits(SubSeq(body, j + 1, Len(body) - 1)) }
    IN IF opens = {} THEN 0 ELSE CHOOSE j \in opens : TRUE

TitlePart(t) == SubSeq(t, 1, FinalOpen(t) - 1)

FinalPoints(t) == DigitsVal(SubSeq(RStrip(t), FinalOpen(t) + 1, Len(RStrip(t)) - 1))

\* The title holds text in parentheses: "(", something, ")".
HasParenthetical(s) ==
    \E i, j \in 1..Len(s) : i + 1 < j /\ s[i] = "(" /\ s[j] = ")"

\* The title holds a parenthesised integer with whitespace after it.
HasInnerVote(s) ==
    \E i, j \in 1..Len(s) :
        /\ i + 1 < j /\ j < Len(s)
        /\ s[i] = "(" /\ s[j] = ")"
        /\ AllDigits(SubSeq(s, i + 1, j - 1))
        /\ IsSpace(s[j + 1])

HasLineBreak(s) == \E i \in 1..Len(s) : s[i] = "NL"

ParentheticalVote(t) ==
    /\ FinalOpen(t) > 1
    /\ Strip(TitlePart(t)) # <<>>
    /\ HasParenthetical(Strip(TitlePart(t)))

WholeTitlePair(t) == << <<normalize_unicode(TitlePart(t)), FinalPoints(t)>> >>

=============================================================================
